---------------------------- MODULE Spec2Model ----------------------------
(***************************************************************************)
(* Layer encoder of sticker-encoders: the Layer selector, the LayerValue   *)
(* and Lemmas adapters of a CoNLL-U sentence (src/src/compat/conllu.rs)    *)
(* and LayerEncoder's encode and decode (src/src/layer/mod.rs).            *)
(*                                                                         *)
(* Strings are sequences of one-character strings, so that parsing and     *)
(* rendering a feature string are computed character by character.         *)
(* A sentence is the sequence of its tokens: node 0 is the root, node idx  *)
(* (idx >= 1) is sentence[idx], and the Rust len() is Len(sentence) + 1.   *)
(***************************************************************************)
EXTENDS Integers, Sequences, FiniteSets

VARIABLES sentence, before, call, outcome, ret, ops

vars == <<sentence, before, call, outcome, ret, ops>>

(* Longest sentence (in tokens) the driver starts from. *)
MaxTokens == 2

(* Number of API calls of one run. *)
MaxOps == 1

---------------------------------------------------------------------------
(* Option<String> *)

None == [some |-> FALSE]

Some(v) == [some |-> TRUE, val |-> v]

---------------------------------------------------------------------------
(* Layer *)

UPos == [kind |-> "upos"]

XPos == [kind |-> "xpos"]

FeatureString == [kind |-> "feature_string"]

Feature(feature, default) == [kind |-> "feature", feature |-> feature, default |-> default]

Misc(feature, default) == [kind |-> "misc", feature |-> feature, default |-> default]

---------------------------------------------------------------------------
(* conllu::token::Features (a BTreeMap<String, String>) and its string form *)

EmptyMap == [k \in {} |-> <<>>]

MapInsert(m, key, v) == [k \in DOMAIN m \cup {key} |-> IF k = key THEN v ELSE m[k]]

(* Byte value of a character: the order of Rust's String. *)
Code(c) ==
    CASE c = "=" -> 61
      [] c = "_" -> 95
      [] c = "a" -> 97
      [] c = "b" -> 98
      [] c = "x" -> 120
      [] c = "y" -> 121
      [] c = "|" -> 124

Min(a, b) == IF a < b THEN a ELSE b

(* a < b in the byte-wise lexicographic order of String *)
StrLess(a, b) ==
    \E i \in 1..(Min(Len(a), Len(b)) + 1) :
        /\ \A j \in 1..(i - 1) : a[j] = b[j]
        /\ \/ i > Len(a) /\ i <= Len(b)
           \/ i <= Len(a) /\ i <= Len(b) /\ Code(a[i]) < Code(b[i])

(* str::find: the first position of c in s, 0 if there is none *)
FindChar(s, c) ==
    IF \E i \in 1..Len(s) : s[i] = c
    THEN CHOOSE i \in 1..Len(s) : s[i] = c /\ \A j \in 1..(i - 1) : s[j] # c
    ELSE 0

RECURSIVE SplitOn(_, _)
(* str::split: the fields of s between the occurrences of c *)
SplitOn(s, c) ==
    LET i == FindChar(s, c)
    IN  IF i = 0 THEN <<s>>
        ELSE <<SubSeq(s, 1, i - 1)>> \o SplitOn(SubSeq(s, i + 1, Len(s)), c)

RECURSIVE ParseFields(_, _, _)
ParseFields(fields, i, m) ==
    IF i > Len(fields) THEN [ok |-> TRUE, map |-> m]
    ELSE LET eq == FindChar(fields[i], "=")
         IN  IF eq = 0 THEN [ok |-> FALSE, map |-> EmptyMap]
             ELSE ParseFields(fields, i + 1,
                      MapInsert(m, SubSeq(fields[i], 1, eq - 1),
                                   SubSeq(fields[i], eq + 1, Len(fields[i]))))

(* Features::try_from(&str) *)
FeaturesTryFrom(s) ==
    IF s = <<"_">> THEN [ok |-> TRUE, map |-> EmptyMap]
    ELSE ParseFields(SplitOn(s, "|"), 1, EmptyMap)

RECURSIVE JoinPairs(_, _)
JoinPairs(m, keys) ==
    IF keys = {} THEN <<>>
    ELSE LET k == CHOOSE x \in keys : \A y \in keys \ {x} : StrLess(x, y)
             rest == keys \ {k}
         IN  k \o <<"=">> \o m[k]
               \o (IF rest = {} THEN <<>> ELSE <<"|">> \o JoinPairs(m, rest))

(* String::from(&Features) *)
FeaturesToString(m) ==
    IF DOMAIN m = {} THEN <<"_">> ELSE JoinPairs(m, DOMAIN m)

---------------------------------------------------------------------------
(* Results of a call: it returns, returns Err(..), or panics. *)

Unit == [kind |-> "unit"]

Str(v) == [kind |-> "str", val |-> v]

Opt(o) == [kind |-> "opt", val |-> o]

Usize(n) == [kind |-> "int", val |-> n]

Labels(l) == [kind |-> "labels", val |-> l]

MissingLabel(form) == [kind |-> "missing_label", form |-> form]

Ok(s, r) == [outcome |-> "ok", ret |-> r, sent |-> s]

Err(s, e) == [outcome |-> "err", ret |-> e, sent |-> s]

Panic(s) == [outcome |-> "panic", ret |-> Unit, sent |-> s]

---------------------------------------------------------------------------
(* impl LayerValue for Sentence, impl Lemmas for Sentence *)

SentLen(s) == Len(s) + 1

IsToken(s, idx) == idx \in 1..Len(s)

Form(s, idx) ==
    IF ~IsToken(s, idx) THEN Panic(s) ELSE Ok(s, Str(s[idx].form))

(* Mutant of SetValue: a feature that is already in the map keeps its value. *)
SetValueKeepExisting(s, idx, layer, value) ==
    IF ~IsToken(s, idx) THEN Panic(s)
    ELSE CASE layer.kind = "upos" ->
                Ok([s EXCEPT ![idx].upos = Some(value)], Unit)
           [] layer.kind = "xpos" ->
                Ok([s EXCEPT ![idx].xpos = Some(value)], Unit)
           [] layer.kind = "feature" ->
                Ok([s EXCEPT ![idx].features =
                        IF layer.feature \in DOMAIN @ THEN @
                        ELSE MapInsert(@, layer.feature, value)], Unit)
           [] layer.kind = "feature_string" ->
                LET parsed == FeaturesTryFrom(value)
                IN  IF parsed.ok
                    THEN Ok([s EXCEPT ![idx].features = parsed.map], Unit)
                    ELSE Panic(s)
           [] layer.kind = "misc" ->
                Ok([s EXCEPT ![idx].misc = MapInsert(@, layer.feature, Some(value))], Unit)

(* Mutant of SetValue: a feature string is merged into the map, not put in its place. *)
SetValueMergeFeatures(s, idx, layer, value) ==
    IF ~IsToken(s, idx) THEN Panic(s)
    ELSE CASE layer.kind = "upos" ->
                Ok([s EXCEPT ![idx].upos = Some(value)], Unit)
           [] layer.kind = "xpos" ->
                Ok([s EXCEPT ![idx].xpos = Some(value)], Unit)
           [] layer.kind = "feature" ->
                Ok([s EXCEPT ![idx].features = MapInsert(@, layer.feature, value)], Unit)
           [] layer.kind = "feature_string" ->
                LET parsed == FeaturesTryFrom(value)
                IN  IF parsed.ok
                    THEN Ok([s EXCEPT ![idx].features =
                                [k \in DOMAIN @ \cup DOMAIN parsed.map |->
                                    IF k \in DOMAIN parsed.map THEN parsed.map[k] ELSE @[k]]],
                            Unit)
                    ELSE Panic(s)
           [] layer.kind = "misc" ->
                Ok([s EXCEPT ![idx].misc = MapInsert(@, layer.feature, Some(value))], Unit)

(* Mutant of SetValue: a feature string that does not parse clears the features. *)
SetValueLenient(s, idx, layer, value) ==
    IF ~IsToken(s, idx) THEN Panic(s)
    ELSE CASE layer.kind = "upos" ->
                Ok([s EXCEPT ![idx].upos = Some(value)], Unit)
           [] layer.kind = "xpos" ->
                Ok([s EXCEPT ![idx].xpos = Some(value)], Unit)
           [] layer.kind = "feature" ->
                Ok([s EXCEPT ![idx].features = MapInsert(@, layer.feature, value)], Unit)
           [] layer.kind = "feature_string" ->
                Ok([s EXCEPT ![idx].features = FeaturesTryFrom(value).map], Unit)
           [] layer.kind = "misc" ->
                Ok([s EXCEPT ![idx].misc = MapInsert(@, layer.feature, Some(value))], Unit)

SetValue(s, idx, layer, value) ==
    IF ~IsToken(s, idx) THEN Panic(s)
    ELSE CASE layer.kind = "upos" ->
                Ok([s EXCEPT ![idx].upos = Some(value)], Unit)
           [] layer.kind = "xpos" ->
                Ok([s EXCEPT ![idx].xpos = Some(value)], Unit)
           [] layer.kind = "feature" ->
                Ok([s EXCEPT ![idx].features = MapInsert(@, layer.feature, value)], Unit)
           [] layer.kind = "feature_string" ->
                LET parsed == FeaturesTryFrom(value)
                IN  IF parsed.ok
                    THEN Ok([s EXCEPT ![idx].features = parsed.map], Unit)
                    ELSE Panic(s)
           [] layer.kind = "misc" ->
                Ok([s EXCEPT ![idx].misc = MapInsert(@, layer.feature, Some(value))], Unit)

(* Mutant of Value: a misc key without a value yields the default. *)
ValueFlagDefault(s, idx, layer) ==
    IF ~IsToken(s, idx) THEN Panic(s)
    ELSE LET token == s[idx]
         IN  CASE layer.kind = "upos" -> Ok(s, Opt(token.upos))
               [] layer.kind = "xpos" -> Ok(s, Opt(token.xpos))
               [] layer.kind = "feature_string" ->
                    Ok(s, Opt(Some(FeaturesToString(token.features))))
               [] layer.kind = "feature" ->
                    IF layer.feature \in DOMAIN token.features
                    THEN Ok(s, Opt(Some(token.features[layer.feature])))
                    ELSE Ok(s, Opt(layer.default))
               [] layer.kind = "misc" ->
                    IF layer.feature \in DOMAIN token.misc /\ token.misc[layer.feature].some
                    THEN Ok(s, Opt(Some(token.misc[layer.feature].val)))
                    ELSE Ok(s, Opt(layer.default))

Value(s, idx, layer) ==
    IF ~IsToken(s, idx) THEN Panic(s)
    ELSE LET token == s[idx]
         IN  CASE layer.kind = "upos" -> Ok(s, Opt(token.upos))
               [] layer.kind = "xpos" -> Ok(s, Opt(token.xpos))
               [] layer.kind = "feature_string" ->
                    Ok(s, Opt(Some(FeaturesToString(token.features))))
               [] layer.kind = "feature" ->
                    IF layer.feature \in DOMAIN token.features
                    THEN Ok(s, Opt(Some(token.features[layer.feature])))
                    ELSE Ok(s, Opt(layer.default))
               [] layer.kind = "misc" ->
                    IF layer.feature \in DOMAIN token.misc
                    THEN IF token.misc[layer.feature].some
                         THEN Ok(s, Opt(Some(token.misc[layer.feature].val)))
                         ELSE Ok(s, Opt(None))
                    ELSE Ok(s, Opt(layer.default))

LemmasForm(s, idx) ==
    IF ~IsToken(s, idx) THEN Panic(s) ELSE Ok(s, Str(s[idx].form))

(* Mutant of Lemma: the root has no lemma, instead of the assertion. *)
LemmaOfRootNone(s, idx) ==
    IF ~IsToken(s, idx) THEN Ok(s, Opt(None)) ELSE Ok(s, Opt(s[idx].lemma))

Lemma(s, idx) ==
    IF ~IsToken(s, idx) THEN Panic(s) ELSE Ok(s, Opt(s[idx].lemma))

SetLemma(s, idx, lemma) ==
    IF ~IsToken(s, idx) THEN Panic(s)
    ELSE Ok([s EXCEPT ![idx].lemma = Some(lemma)], Unit)

---------------------------------------------------------------------------
(* LayerEncoder *)

RECURSIVE DecodeLoopLastCandidate(_, _, _, _)
(* Mutant of DecodeLoop: the last candidate of a list is written, not the first. *)
DecodeLoopLastCandidate(s, layer, labels, pos) ==
    IF pos > Len(labels) THEN Ok(s, Unit)
    ELSE IF Len(labels[pos]) = 0 THEN DecodeLoopLastCandidate(s, layer, labels, pos + 1)
    ELSE LET r == SetValue(s, pos, layer, labels[pos][Len(labels[pos])].encoding)
         IN  IF r.outcome = "panic" THEN r
             ELSE DecodeLoopLastCandidate(r.sent, layer, labels, pos + 1)

RECURSIVE DecodeLoopStopAtEmpty(_, _, _, _)
(* Mutant of DecodeLoop: an empty candidate list ends the loop. *)
DecodeLoopStopAtEmpty(s, layer, labels, pos) ==
    IF pos > Len(labels) THEN Ok(s, Unit)
    ELSE IF Len(labels[pos]) = 0 THEN Ok(s, Unit)
    ELSE LET r == SetValue(s, pos, layer, labels[pos][1].encoding)
         IN  IF r.outcome = "panic" THEN r
             ELSE DecodeLoopStopAtEmpty(r.sent, layer, labels, pos + 1)

RECURSIVE DecodeLoop(_, _, _, _)
(* The for loop of decode, from position pos (1-based, which is idx + 1). *)
DecodeLoop(s, layer, labels, pos) ==
    IF pos > Len(labels) THEN Ok(s, Unit)
    ELSE IF Len(labels[pos]) = 0 THEN DecodeLoop(s, layer, labels, pos + 1)
    ELSE LET r == SetValue(s, pos, layer, labels[pos][1].encoding)
         IN  IF r.outcome = "panic" THEN r
             ELSE DecodeLoop(r.sent, layer, labels, pos + 1)

(* Mutant of Decode: the length assertion is missing. *)
DecodeUnchecked(s, layer, labels) == DecodeLoop(s, layer, labels, 1)

Decode(s, layer, labels) ==
    IF Len(labels) # SentLen(s) - 1 THEN Panic(s)
    ELSE DecodeLoop(s, layer, labels, 1)

RECURSIVE EncodeLoopSkipMissing(_, _, _, _)
(* Mutant of EncodeLoop: a token without a value is skipped. *)
EncodeLoopSkipMissing(s, layer, idx, encoding) ==
    IF idx >= SentLen(s) THEN Ok(s, Labels(encoding))
    ELSE LET label == Value(s, idx, layer).ret.val
         IN  IF ~label.some THEN EncodeLoopSkipMissing(s, layer, idx + 1, encoding)
             ELSE EncodeLoopSkipMissing(s, layer, idx + 1, Append(encoding, label.val))

RECURSIVE EncodeLoop(_, _, _, _)
(* The for loop of encode, from node idx with the labels pushed so far. *)
EncodeLoop(s, layer, idx, encoding) ==
    IF idx >= SentLen(s) THEN Ok(s, Labels(encoding))
    ELSE LET label == Value(s, idx, layer).ret.val
         IN  IF ~label.some THEN Err(s, MissingLabel(Form(s, idx).ret.val))
             ELSE EncodeLoop(s, layer, idx + 1, Append(encoding, label.val))

(* Mutant of Encode: the loop starts one node late. *)
EncodeFromSecond(s, layer) == EncodeLoop(s, layer, 2, <<>>)

Encode(s, layer) == EncodeLoop(s, layer, 1, <<>>)

---------------------------------------------------------------------------
(* Inputs of the driver *)

Values ==
    { <<"x">>,
      <<"b", "=", "y", "|", "a", "=", "x">>,
      <<"_">> }

Keys == { <<"a">>, <<"b">> }

Defaults == { None, Some(<<"y">>) }

(* The layers an encoder is configured with. *)
Layers ==
    { UPos, XPos, FeatureString,
      Feature(<<"a">>, None), Feature(<<"b">>, Some(<<"y">>)),
      Misc(<<"a">>, None), Misc(<<"b">>, Some(<<"y">>)) }

(* The form of the token at node i: i letters, so that forms tell nodes apart. *)
FormAt(i) == [j \in 1..i |-> "a"]

(* TokenBuilder::new(form).into() *)
BareToken(i) ==
    [form |-> FormAt(i), lemma |-> None, upos |-> None, xpos |-> None,
     features |-> EmptyMap, misc |-> EmptyMap]

(* A token with tags, one feature, one misc entry with a value and one without. *)
FullToken(i) ==
    [form |-> FormAt(i), lemma |-> Some(<<"a">>),
     upos |-> Some(<<"x">>), xpos |-> Some(<<"y">>),
     features |-> MapInsert(EmptyMap, <<"a">>, <<"x">>),
     misc |-> MapInsert(MapInsert(EmptyMap, <<"a">>, Some(<<"x">>)), <<"b">>, None)]

Sentences ==
    UNION { { s \in [1..n -> {"bare", "full"}] : TRUE } : n \in 0..MaxTokens }

MkSentence(shape) ==
    [i \in 1..Len(shape) |-> IF shape[i] = "bare" THEN BareToken(i) ELSE FullToken(i)]

(* EncodingProb: a label and its probability (in percent). *)
Cand(e, p) == [encoding |-> e, prob |-> p]

(* Ranked candidate lists of one position. *)
CandLists ==
    { <<>>,
      <<Cand(<<"a", "=", "x">>, 90)>>,
      <<Cand(<<"x">>, 60), Cand(<<"a", "=", "x">>, 30)>> }

LabelSeqs == UNION { [1..n -> CandLists] : n \in 0..MaxTokens }

NoCall == [op |-> "none", idx |-> 0, layer |-> UPos, value |-> <<>>, labels |-> <<>>]

---------------------------------------------------------------------------
(* The driver: a sentence, then API calls on it. *)

Init ==
    /\ \E shape \in Sentences : sentence = MkSentence(shape)
    /\ before = sentence
    /\ call = NoCall
    /\ outcome = "ok"
    /\ ret = Unit
    /\ ops = 0

(* The run has a call left. *)
CanCall == ops < MaxOps

Do(c, r) ==
    /\ ops' = ops + 1
    /\ before' = sentence
    /\ call' = c
    /\ sentence' = r.sent
    /\ outcome' = r.outcome
    /\ ret' = r.ret

CallLen ==
    CanCall /\ Do([NoCall EXCEPT !.op = "len"], Ok(sentence, Usize(SentLen(sentence))))

CallForm ==
    CanCall /\ \E idx \in 0..Len(sentence) :
        Do([NoCall EXCEPT !.op = "form", !.idx = idx], Form(sentence, idx))

CallSetValue ==
    CanCall /\ \E idx \in 0..Len(sentence), layer \in Layers, value \in Values :
        Do([NoCall EXCEPT !.op = "set_value", !.idx = idx, !.layer = layer, !.value = value],
           SetValue(sentence, idx, layer, value))

CallValue ==
    CanCall /\ \E idx \in 0..Len(sentence), layer \in Layers :
        Do([NoCall EXCEPT !.op = "value", !.idx = idx, !.layer = layer],
           Value(sentence, idx, layer))

CallLemmasForm ==
    CanCall /\ \E idx \in 0..Len(sentence) :
        Do([NoCall EXCEPT !.op = "lemmas_form", !.idx = idx], LemmasForm(sentence, idx))

CallLemma ==
    CanCall /\ \E idx \in 0..Len(sentence) :
        Do([NoCall EXCEPT !.op = "lemma", !.idx = idx], Lemma(sentence, idx))

CallSetLemma ==
    CanCall /\ \E idx \in 0..Len(sentence), value \in Values :
        Do([NoCall EXCEPT !.op = "set_lemma", !.idx = idx, !.value = value],
           SetLemma(sentence, idx, value))

CallDecode ==
    CanCall /\ \E layer \in Layers, labels \in LabelSeqs :
        Do([NoCall EXCEPT !.op = "decode", !.layer = layer, !.labels = labels],
           Decode(sentence, layer, labels))

CallEncode ==
    CanCall /\ \E layer \in Layers :
        Do([NoCall EXCEPT !.op = "encode", !.layer = layer], Encode(sentence, layer))

Next ==
    \/ CallLen
    \/ CallForm
    \/ CallSetValue
    \/ CallValue
    \/ CallLemmasForm
    \/ CallLemma
    \/ CallSetLemma
    \/ CallDecode
    \/ CallEncode

Spec == Init /\ [][Next]_vars

---------------------------------------------------------------------------
(* set_value on every short string: the last call of a run. *)

(* Longest string written. *)
MaxStrLen == 4

Alphabet == {"a", "b", "=", "|", "_"}

Strings == UNION { [1..n -> Alphabet] : n \in 0..MaxStrLen }

AllLayers ==
    {UPos, XPos, FeatureString}
      \cup { Feature(k, d) : k \in Keys, d \in Defaults }
      \cup { Misc(k, d) : k \in Keys, d \in Defaults }

InitStrings ==
    /\ sentence \in { MkSentence(<<"bare">>), MkSentence(<<"full">>),
                      MkSentence(<<"full", "bare">>) }
    /\ before = sentence
    /\ call = NoCall
    /\ outcome = "ok"
    /\ ret = Unit
    /\ ops = MaxOps - 1

CallSetValueString ==
    CanCall /\ \E idx \in 0..Len(sentence), layer \in AllLayers, value \in Strings :
        Do([NoCall EXCEPT !.op = "set_value", !.idx = idx, !.layer = layer, !.value = value],
           SetValue(sentence, idx, layer, value))

NextStrings == CallSetValueString

SpecStrings == InitStrings /\ [][NextStrings]_vars

---------------------------------------------------------------------------
(* Properties *)

(* The nodes of s whose value for the layer is none. *)
MissingAt(s, layer) ==
    { idx \in 1..Len(s) : ~Value(s, idx, layer).ret.val.some }

(* C1: encode of a sentence whose every real token has a value for the layer
   succeeds with exactly len() - 1 labels, the i-th (0-based) being
   value(i + 1, layer), and leaves the sentence unchanged. *)
C1_EncodeAllLabels ==
    (call.op = "encode" /\ MissingAt(before, call.layer) = {}) =>
        /\ outcome = "ok"
        /\ ret.kind = "labels"
        /\ Len(ret.val) = SentLen(before) - 1
        /\ \A i \in 0..(SentLen(before) - 2) :
              Some(ret.val[i + 1]) = Value(before, i + 1, call.layer).ret.val
        /\ sentence = before

C1_Witness ==
    /\ call.op = "encode"
    /\ outcome = "ok"
    /\ ret.kind = "labels"
    /\ Len(ret.val) = 2
    /\ ret.val[1] # ret.val[2]

(* C2: encode of a sentence with a token whose value is none returns a
   MissingLabel error, never a label sequence, and the error carries the form
   of the lowest such token. *)
C2_EncodeMissingLabel ==
    (call.op = "encode" /\ MissingAt(before, call.layer) # {}) =>
        LET k == CHOOSE i \in MissingAt(before, call.layer) :
                     \A j \in MissingAt(before, call.layer) : i <= j
        IN  /\ outcome = "err"
            /\ ret = MissingLabel(before[k].form)
            /\ sentence = before

C2_Witness ==
    /\ call.op = "encode"
    /\ outcome = "err"
    /\ Cardinality(MissingAt(before, call.layer)) = 1
    /\ 2 \in MissingAt(before, call.layer)
    /\ ret.form = FormAt(2)

(* C5: decode with a labels sequence whose length is not len() - 1 panics
   with the sentence unchanged: no error value, no prefix written. *)
C5_DecodeLengthMismatch ==
    (call.op = "decode" /\ Len(call.labels) # SentLen(before) - 1) =>
        /\ outcome = "panic"
        /\ sentence = before

C5_Witness ==
    /\ call.op = "decode"
    /\ outcome = "panic"
    /\ Len(before) = 2
    /\ Len(call.labels) = 1
    /\ Len(call.labels[1]) > 0
    /\ call.layer = UPos

---------------------------------------------------------------------------
(* decode: the positions, their top candidates and where set_value aborts *)

Top(cands) == cands[1].encoding

NonEmpty(labels) == { p \in 1..Len(labels) : Len(labels[p]) > 0 }

(* One set_value of the top candidate of position p on the sentence s. *)
TopWrite(s, layer, labels, p) == SetValue(s, p, layer, Top(labels[p]))

(* The positions whose own set_value panics. *)
Aborts(s, layer, labels) ==
    { p \in NonEmpty(labels) : TopWrite(s, layer, labels, p).outcome = "panic" }

(* The positions decode reaches and writes: non-empty, before every abort. *)
Written(s, layer, labels) ==
    LET aborts == Aborts(s, layer, labels)
    IN  { p \in NonEmpty(labels) : \A a \in aborts : p < a }

(* Candidates of rank 2 and beyond. *)
Tails == { <<>>, <<Cand(<<"_">>, 5), Cand(<<"x">>, 1)>> }

(* labels with the candidates after the first of every list replaced by tail. *)
Retail(labels, tail) ==
    [p \in 1..Len(labels) |->
        IF Len(labels[p]) = 0 THEN <<>> ELSE <<labels[p][1]>> \o tail]

DecodeCall == call.op = "decode" /\ Len(call.labels) = SentLen(before) - 1

(* The result of a decode of the sentence before the call with other
   candidates of rank 2 and beyond (none, or two more) is the result of the
   call: calls that agree on the first candidates have one result. *)
RankTwoIgnored ==
    \A tail \in Tails :
        Decode(before, call.layer, Retail(call.labels, tail))
            = [outcome |-> outcome, ret |-> ret, sent |-> sentence]

(* C3 as stated: in a decode call with len() - 1 labels every position with a
   non-empty candidate list gets the set_value of its first candidate, and
   candidates of rank 2 and beyond do not matter. *)
C3_EveryPositionWritten ==
    DecodeCall =>
        /\ \A p \in NonEmpty(call.labels) :
              sentence[p] = TopWrite(before, call.layer, call.labels, p).sent[p]
        /\ RankTwoIgnored

(* C3 amended: every position with a non-empty candidate list up to the first
   whose set_value panics gets the set_value of its first candidate, the
   positions after a panic are not written, and candidates of rank 2 and
   beyond do not matter to the sentence or the outcome. *)
C3_TopCandidateWritten ==
    DecodeCall =>
        /\ LET written == Written(before, call.layer, call.labels)
           IN  \A p \in 1..Len(before) :
                   sentence[p] =
                       IF p \in written
                       THEN TopWrite(before, call.layer, call.labels, p).sent[p]
                       ELSE before[p]
        /\ outcome = IF Aborts(before, call.layer, call.labels) = {} THEN "ok" ELSE "panic"
        /\ RankTwoIgnored

C3_Witness ==
    /\ DecodeCall
    /\ outcome = "ok"
    /\ Len(call.labels) = 2
    /\ Len(call.labels[1]) = 2
    /\ Top(call.labels[1]) # call.labels[1][2].encoding
    /\ sentence[1] # before[1]
    /\ sentence[2] # before[2]

(* C4: in a decode call with len() - 1 labels a position with an empty
   candidate list leaves its token as it was, is never where the call stops,
   and the positions after it are still written. *)
C4_EmptyListSkipped ==
    DecodeCall =>
        /\ \A p \in 1..Len(call.labels) :
              Len(call.labels[p]) = 0 =>
                  /\ sentence[p] = before[p]
                  /\ \A l \in AllLayers :
                        Value(sentence, p, l).ret = Value(before, p, l).ret
        /\ outcome # "err"
        /\ outcome = "panic" => Aborts(before, call.layer, call.labels) # {}
        /\ \A p \in Written(before, call.layer, call.labels) :
              sentence[p] = TopWrite(before, call.layer, call.labels, p).sent[p]

C4_Witness ==
    /\ DecodeCall
    /\ outcome = "ok"
    /\ Len(call.labels) = 2
    /\ Len(call.labels[1]) = 0
    /\ Len(call.labels[2]) > 0
    /\ sentence[1] = before[1]
    /\ sentence[2] # before[2]

(* A set_value of a feature string that does not parse, on a real token. *)
MalformedSet ==
    /\ call.op = "set_value"
    /\ IsToken(before, call.idx)
    /\ call.layer = FeatureString
    /\ ~FeaturesTryFrom(call.value).ok

(* C9 as stated: set_value of a feature string that does not parse returns a
   reported error with the features unchanged, and a decode call that hits it
   returns an error result. *)
C9_MalformedReported ==
    /\ MalformedSet => (outcome = "err" /\ sentence = before)
    /\ (DecodeCall /\ Aborts(before, call.layer, call.labels) # {}) => outcome = "err"

(* C9 amended: set_value of a feature string that does not parse panics, as
   an access to the root and a decode with a length mismatch do, with the
   sentence unchanged; a decode call that hits it panics too, never returning
   an error value, with the positions before it written and the token of that
   position and the later ones unchanged. *)
C9_MalformedPanics ==
    /\ MalformedSet =>
          /\ outcome = "panic"
          /\ outcome = SetValue(before, 0, call.layer, call.value).outcome
          /\ outcome = Decode(before, call.layer, [p \in 1..SentLen(before) |-> <<>>]).outcome
          /\ sentence = before
    /\ (DecodeCall /\ Aborts(before, call.layer, call.labels) # {}) =>
          /\ outcome = "panic"
          /\ call.layer = FeatureString
          /\ LET aborts == Aborts(before, call.layer, call.labels)
             IN  \A p \in 1..Len(before) :
                     /\ (\E a \in aborts : a <= p) => sentence[p] = before[p]
                     /\ (p \in NonEmpty(call.labels) /\ \A a \in aborts : p < a) =>
                            sentence[p] = TopWrite(before, call.layer, call.labels, p).sent[p]

C9_Witness ==
    /\ DecodeCall
    /\ outcome = "panic"
    /\ Aborts(before, call.layer, call.labels) = {2}
    /\ sentence[1] # before[1]
    /\ sentence[2] = before[2]

(* A set_value on a real token. *)
SetCall == call.op = "set_value" /\ IsToken(before, call.idx)

(* C6: after set_value(idx, layer, v) on a real token, value(idx, layer) is v
   for UPos, XPos, Feature and Misc, whatever the default of the layer and
   whatever the slot held; for FeatureString with a v that parses it is the
   rendering of the parsed map, and setting that rendering and reading it
   back gives the rendering again. *)
C6_SetThenGet ==
    SetCall =>
        /\ call.layer.kind \in {"upos", "xpos"} =>
              /\ outcome = "ok"
              /\ Value(sentence, call.idx, call.layer).ret = Opt(Some(call.value))
        /\ call.layer.kind \in {"feature", "misc"} =>
              /\ outcome = "ok"
              /\ \A d \in Defaults :
                    Value(sentence, call.idx, [call.layer EXCEPT !.default = d]).ret
                        = Opt(Some(call.value))
        /\ (call.layer.kind = "feature_string" /\ FeaturesTryFrom(call.value).ok) =>
              LET r == FeaturesToString(FeaturesTryFrom(call.value).map)
                  again == SetValue(sentence, call.idx, FeatureString, r)
              IN  /\ outcome = "ok"
                  /\ Value(sentence, call.idx, FeatureString).ret = Opt(Some(r))
                  /\ again.outcome = "ok"
                  /\ Value(again.sent, call.idx, FeatureString).ret = Opt(Some(r))

C6_Witness ==
    /\ SetCall
    /\ outcome = "ok"
    /\ call.layer = FeatureString
    /\ Len(call.value) = 4
    /\ Value(sentence, call.idx, FeatureString).ret # Opt(Some(call.value))
    /\ Value(sentence, call.idx, FeatureString).ret # Value(before, call.idx, FeatureString).ret
    /\ Cardinality(DOMAIN sentence[call.idx].features) = 2

(* C7: value(idx, Feature{k, d}) is the stored value when k is in the feature
   map and d otherwise; value(idx, Misc{k, d}) is the stored value when k has
   one, none when k is present without a value (d is not substituted), and d
   when k is absent. *)
C7_Defaults ==
    (call.op = "value" /\ IsToken(before, call.idx)) =>
        LET token == before[call.idx]
            k == call.layer.feature
            d == call.layer.default
        IN  /\ outcome = "ok"
            /\ ret.kind = "opt"
            /\ call.layer.kind = "feature" =>
                  ret.val = IF k \in DOMAIN token.features THEN Some(token.features[k]) ELSE d
            /\ call.layer.kind = "misc" =>
                  /\ (k \in DOMAIN token.misc /\ token.misc[k].some) => ret.val = token.misc[k]
                  /\ (k \in DOMAIN token.misc /\ ~token.misc[k].some) => ret.val = None
                  /\ k \notin DOMAIN token.misc => ret.val = d

C7_Witness ==
    /\ call.op = "value"
    /\ IsToken(before, call.idx)
    /\ call.layer.kind = "misc"
    /\ call.layer.default # None
    /\ call.layer.feature \in DOMAIN before[call.idx].misc
    /\ ret.val = None

(* The operations that take a node index. *)
IndexOps == {"form", "value", "set_value", "lemmas_form", "lemma", "set_lemma"}

(* C8: form, value, set_value of LayerValue and form, lemma, set_lemma of
   Lemmas panic at index 0 for every layer and value, returning nothing and
   leaving the sentence as it was, as the call made and as a call on the
   sentence it leaves; encode never panics and decode panics only on a length
   mismatch or a feature string that does not parse, so neither reaches the
   root. *)
C8_RootAccessPanics ==
    /\ (call.op \in IndexOps /\ call.idx = 0) =>
          /\ outcome = "panic"
          /\ ret = Unit
          /\ sentence = before
    /\ SetValue(sentence, 0, call.layer, call.value) = Panic(sentence)
    /\ Value(sentence, 0, call.layer) = Panic(sentence)
    /\ Form(sentence, 0) = Panic(sentence)
    /\ LemmasForm(sentence, 0) = Panic(sentence)
    /\ Lemma(sentence, 0) = Panic(sentence)
    /\ SetLemma(sentence, 0, call.value) = Panic(sentence)
    /\ call.op = "encode" => outcome # "panic"
    /\ (DecodeCall /\ outcome = "panic") =>
          /\ call.layer = FeatureString
          /\ \E p \in NonEmpty(call.labels) : ~FeaturesTryFrom(Top(call.labels[p])).ok

C8_Witness ==
    /\ call.op = "set_value"
    /\ call.idx = 0
    /\ call.layer = UPos
    /\ Len(before) = 2
    /\ outcome = "panic"

(* The layers whose value a set_value through layer l may change. *)
SameSlot(l, m) ==
    \/ l.kind = m.kind /\ l.kind \in {"upos", "xpos", "feature_string"}
    \/ l.kind = m.kind /\ l.kind \in {"feature", "misc"} /\ l.feature = m.feature
    \/ {l.kind, m.kind} = {"feature", "feature_string"}

(* needle occurs in hay *)
Contains(hay, needle) ==
    \E i \in 1..(Len(hay) - Len(needle) + 1) :
        SubSeq(hay, i, i + Len(needle) - 1) = needle

(* C10: set_value(idx, layer, v) leaves value(j, m) as it was for every other
   token j and, on token idx, for every layer m of another tag field, map or
   key; through Feature{k} it makes the feature string contain k=v (be k=v
   on a token without features), and through FeatureString it replaces the
   map, so that Feature{k, d} then reads the value of k in it, or d. *)
C10_SetValueFrame ==
    SetCall =>
        /\ Len(sentence) = Len(before)
        /\ \A j \in 1..Len(before), m \in AllLayers :
              (j # call.idx \/ ~SameSlot(call.layer, m)) =>
                  Value(sentence, j, m).ret = Value(before, j, m).ret
        /\ \A j \in 1..Len(before) :
              /\ Form(sentence, j).ret = Form(before, j).ret
              /\ Lemma(sentence, j).ret = Lemma(before, j).ret
        /\ call.layer.kind = "feature" =>
              LET pair == call.layer.feature \o <<"=">> \o call.value
                  fs == Value(sentence, call.idx, FeatureString).ret.val.val
              IN  /\ Contains(fs, pair)
                  /\ before[call.idx].features = EmptyMap => fs = pair
        /\ (call.layer.kind = "feature_string" /\ FeaturesTryFrom(call.value).ok) =>
              LET map == FeaturesTryFrom(call.value).map
              IN  \A k \in Keys, d \in Defaults :
                      Value(sentence, call.idx, Feature(k, d)).ret.val
                          = IF k \in DOMAIN map THEN Some(map[k]) ELSE d

C10_Witness ==
    /\ SetCall
    /\ Len(before) = 2
    /\ call.layer.kind = "feature_string"
    /\ outcome = "ok"
    /\ <<"a">> \in DOMAIN before[call.idx].features
    /\ <<"a">> \notin DOMAIN sentence[call.idx].features
    /\ <<"b">> \in DOMAIN sentence[call.idx].features

=============================================================================
